---- MODULE Spec2Model ----
(***************************************************************************)
(* Model of the polling-and-reconciliation engine of the trusted traveler  *)
(* scheduler: Config.is_date_acceptable (src/src/config.py) and            *)
(* ScheduleRetriever (src/src/schedule_retriever.py).                      *)
(*                                                                         *)
(* Time is counted in slots; a datetime is the number of slots since the   *)
(* midnight of day 0, so datetimes compare as integers the way Python      *)
(* compares naive datetimes.  A feed timestamp string is the pair          *)
(* <<day, slot of day>>; the ISO string stored in the database is the      *)
(* triple <<day, slot of day, 0>> (isoformat appends the seconds).         *)
(***************************************************************************)
EXTENDS Integers, Sequences, FiniteSets, Bags, TLC

\* ---------------------------------------------------------------- bounds
SlotsPerDay == 2
MaxDate == 1
MaxNow == 1
MaxFeed == 2
MaxTravel == 1
MaxInterval == 2
MaxDuration == 3
MaxClock == 8

\* ------------------------------------------------------------- constants
None == 0 - 1
Locations == {1, 2}
NoLock == 0
Statuses == {200, 403, 500}

Dates == 0 .. MaxDate
Times == 0 .. ((MaxDate + 1) * SlotsPerDay - 1)

\* ------------------------------------------------- datetime and strings
date(t) == t \div SlotsPerDay
time(t) == t % SlotsPerDay

\* datetime.strptime(timestamp, "%Y-%m-%dT%H:%M"): the fields must be in
\* range, otherwise ValueError
strptime_ok(ts) == ts[1] >= 0 /\ ts[2] \in 0 .. (SlotsPerDay - 1)
strptime(ts) == ts[1] * SlotsPerDay + ts[2]

\* datetime.isoformat(): "YYYY-MM-DDTHH:MM:SS"
isoformat(t) == <<date(t), time(t), 0>>

\* ------------------------------------------------------ AcceptancePolicy
is_date_acceptable_strict(cfg, when, nowv) ==
    IF cfg.current_appointment_date # None /\ when >= cfg.current_appointment_date
    THEN FALSE
    ELSE IF cfg.travel_time # None /\ when <= nowv + cfg.travel_time
    THEN FALSE
    ELSE IF cfg.start_appointment_time # None
            /\ time(when) < time(cfg.start_appointment_time)
    THEN FALSE
    ELSE IF cfg.end_appointment_time # None
            /\ time(when) > time(cfg.end_appointment_time)
    THEN FALSE
    ELSE TRUE

is_date_acceptable(cfg, when, nowv) ==
    IF cfg.current_appointment_date # None /\ when >= cfg.current_appointment_date
    THEN FALSE
    ELSE IF cfg.travel_time # None /\ when < nowv + cfg.travel_time
    THEN FALSE
    ELSE IF cfg.start_appointment_time # None
            /\ time(when) < time(cfg.start_appointment_time)
    THEN FALSE
    ELSE IF cfg.end_appointment_time # None
            /\ time(when) > time(cfg.end_appointment_time)
    THEN FALSE
    ELSE TRUE

\* ------------------------------------------------------ AppointmentStore
\* The appointments table is a bag of rows <<location_id, start_time>>.
RowsOf(db, location_id) == {r \in BagToSet(db) : r[1] = location_id}
StoredTimes(db, location_id) == {r[2] : r \in RowsOf(db, location_id)}

DeleteNotIn_any_location(db, location_id, isos) ==
    LET keep == {r \in BagToSet(db) : r[2] \in isos}
    IN  [r \in keep |-> db[r]]

\* DELETE FROM appointments WHERE location_id = ? AND start_time NOT IN (...)
DeleteNotIn(db, location_id, isos) ==
    LET keep == {r \in BagToSet(db) : ~(r[1] = location_id /\ r[2] \notin isos)}
    IN  [r \in keep |-> db[r]]

clear_database_unless_empty(db, location_id, all_active) ==
    IF all_active = <<>>
    THEN db
    ELSE DeleteNotIn(db, location_id,
                     {isoformat(all_active[i]) : i \in DOMAIN all_active})

clear_database_of_claimed_appointments(db, location_id, all_active) ==
    DeleteNotIn(db, location_id,
                {isoformat(all_active[i]) : i \in DOMAIN all_active})

is_new_appointment_unchecked(db, location_id, parsed_date) ==
    [ret |-> TRUE, db |-> db (+) SetToBag({<<location_id, isoformat(parsed_date)>>})]

\* SELECT COUNT(*) ...; if count > 0 return False; INSERT ...; return True
is_new_appointment(db, location_id, parsed_date) ==
    LET row == <<location_id, isoformat(parsed_date)>>
        count == CopiesIn(row, db)
    IN  IF count > 0
        THEN [ret |-> FALSE, db |-> db]
        ELSE [ret |-> TRUE, db |-> db (+) SetToBag({row})]

\* ------------------------------------------------- RemoteScheduleSource
\* One element of the JSON array: has_active / has_ts say whether the keys
\* "active" and "startTimestamp" are present.
\* the timestamps the feed offers: the last slot of day 0 and the slots of
\* the last day
Stamps == {<<0, SlotsPerDay - 1>>} \cup {<<MaxDate, t>> : t \in 0 .. (SlotsPerDay - 1)}
BadStamp == <<0, SlotsPerDay>>
Active ==
    [has_active : {TRUE}, active : {TRUE}, has_ts : {TRUE}, startTimestamp : Stamps]
LastStamp == <<MaxDate, SlotsPerDay - 1>>
Inactive ==
    [has_active |-> TRUE, active |-> FALSE, has_ts |-> TRUE, startTimestamp |-> LastStamp]
WellFormed == Active \cup {Inactive}
MissingActive ==
    [has_active |-> FALSE, active |-> FALSE, has_ts |-> TRUE, startTimestamp |-> <<0, 0>>]
MissingTimestamp ==
    [has_active |-> TRUE, active |-> TRUE, has_ts |-> FALSE, startTimestamp |-> <<0, 0>>]
BadTimestamp ==
    [has_active |-> TRUE, active |-> TRUE, has_ts |-> TRUE, startTimestamp |-> BadStamp]
Entries == WellFormed \cup {MissingActive, MissingTimestamp, BadTimestamp}

SeqsUpTo(S, n) == UNION {[1 .. k -> S] : k \in 0 .. n}
Feeds == SeqsUpTo(Entries, MaxFeed)

\* A task that runs alone is offered every feed; tasks that run side by
\* side are offered the last slot only, active or not.
FewFeeds == SeqsUpTo({e \in WellFormed : e.startTimestamp = LastStamp}, 1)
FeedsOf(ids) == IF Cardinality(ids) = 1 THEN Feeds ELSE FewFeeds

\* the start times of the well-formed active candidates of a response
ActiveTimes(appointments) ==
    {strptime(appointments[i].startTimestamp) :
        i \in {j \in DOMAIN appointments :
                  /\ appointments[j].has_active
                  /\ appointments[j].active
                  /\ appointments[j].has_ts
                  /\ strptime_ok(appointments[j].startTimestamp)}}

\* ------------------------------------------------------- PollingEngine
evaluate_timestamp_unfiltered(schedule, timestamp, cfg, nowv) ==
    IF ~strptime_ok(timestamp)
    THEN [exc |-> "ValueError", list |-> schedule]
    ELSE [exc |-> "", list |-> Append(schedule, strptime(timestamp))]

\* parsed_date = strptime(...); if is_date_acceptable(parsed_date): append
evaluate_timestamp(schedule, timestamp, cfg, nowv) ==
    IF ~strptime_ok(timestamp)
    THEN [exc |-> "ValueError", list |-> schedule]
    ELSE LET parsed_date == strptime(timestamp)
         IN  IF is_date_acceptable(cfg, parsed_date, nowv)
             THEN [exc |-> "", list |-> Append(schedule, parsed_date)]
             ELSE [exc |-> "", list |-> schedule]

RECURSIVE evaluate_all_break(_, _, _, _, _)
evaluate_all_break(appointments, i, acc, cfg, nowv) ==
    IF i > Len(appointments)
    THEN [exc |-> "", list |-> acc]
    ELSE LET appointment == appointments[i]
         IN  IF ~appointment.has_active
             THEN [exc |-> "KeyError", list |-> acc]
             ELSE IF ~appointment.active
             THEN [exc |-> "", list |-> acc]
             ELSE IF ~appointment.has_ts
             THEN [exc |-> "KeyError", list |-> acc]
             ELSE LET r == evaluate_timestamp(acc, appointment.startTimestamp, cfg, nowv)
                  IN  IF r.exc # ""
                      THEN r
                      ELSE evaluate_all_break(appointments, i + 1, r.list, cfg, nowv)

RECURSIVE evaluate_all_any(_, _, _, _, _)
evaluate_all_any(appointments, i, acc, cfg, nowv) ==
    IF i > Len(appointments)
    THEN [exc |-> "", list |-> acc]
    ELSE LET appointment == appointments[i]
         IN  IF ~appointment.has_active
             THEN [exc |-> "KeyError", list |-> acc]
             ELSE IF ~appointment.has_ts
             THEN [exc |-> "KeyError", list |-> acc]
             ELSE LET r == evaluate_timestamp(acc, appointment.startTimestamp, cfg, nowv)
                  IN  IF r.exc # ""
                      THEN r
                      ELSE evaluate_all_any(appointments, i + 1, r.list, cfg, nowv)

\* for appointment in appointments: if appointment["active"]: ...
RECURSIVE evaluate_all(_, _, _, _, _)
evaluate_all(appointments, i, acc, cfg, nowv) ==
    IF i > Len(appointments)
    THEN [exc |-> "", list |-> acc]
    ELSE LET appointment == appointments[i]
         IN  IF ~appointment.has_active
             THEN [exc |-> "KeyError", list |-> acc]
             ELSE IF ~appointment.active
             THEN evaluate_all(appointments, i + 1, acc, cfg, nowv)
             ELSE IF ~appointment.has_ts
             THEN [exc |-> "KeyError", list |-> acc]
             ELSE LET r == evaluate_timestamp(acc, appointment.startTimestamp, cfg, nowv)
                  IN  IF r.exc # ""
                      THEN r
                      ELSE evaluate_all(appointments, i + 1, r.list, cfg, nowv)

\* schedule = {}
EmptySchedule == [d \in {} |-> <<>>]

setdefault_overwrite(sched, d, w) ==
    [k \in (DOMAIN sched) \cup {d} |-> IF k = d THEN <<w>> ELSE sched[k]]

\* schedule.setdefault(when.date(), []).append(when)
setdefault_append(sched, d, w) ==
    [k \in (DOMAIN sched) \cup {d} |->
        IF k = d
        THEN (IF d \in DOMAIN sched THEN Append(sched[d], w) ELSE <<w>>)
        ELSE sched[k]]

\* every timestamp of a date -> list mapping
ScheduleTimes(sched) == UNION {{sched[d][i] : i \in DOMAIN sched[d]} : d \in DOMAIN sched}

\* ------------------------------------------------------------- the state
VARIABLES
    config,                   \* Config: the acceptance constraints and the interval
    location_ids,             \* config.location_ids: the monitored locations, one task each
    monitored,                \* monitored[l]: the location_id argument of monitor_location of task l
    time_before,              \* time_before[l]: local of monitor_location, the start of the cycle
    time_to_sleep,            \* time_to_sleep[l]: local of monitor_location
    now,                      \* the wall clock, in slots
    committed,                \* the appointments table as committed to the database file
    pending,                  \* the table as seen inside the open write transaction
    lock,                     \* the location whose connection holds the write lock
    pc,                       \* pc[l]: where monitor_location(l) stands
    response,                 \* response[l]: what requests.get and response.json() gave
    status,                   \* status[l]: response.status_code of the cycle (0: no response)
    all_active_appointments,  \* all_active_appointments[l]: local of _get_schedule
    idx,                      \* idx[l]: position of the claim loop in all_active_appointments
    schedule,                 \* schedule[l]: local of _get_schedule, date -> list
    error,                    \* error[l]: the exception that left monitor_location
    active_times,             \* active_times[l]: start times of the active entries of the response
    accepted_times,           \* accepted_times[l]: those of them the policy accepted
    sink,                     \* sink[l]: the calls of new_appointment made by the cycle
    notified,                 \* notified[l]: handed to the sink earlier and active ever since
    when,                     \* argument of a stand-alone is_date_acceptable call
    verdict                   \* its result

vars == <<config, location_ids, monitored, time_before, time_to_sleep, now, committed, pending, lock, pc, response, status, all_active_appointments,
          idx, schedule, error, active_times, accepted_times, sink, notified,
          when, verdict>>

engine_vars == <<committed, pending, lock, pc, response, status, all_active_appointments,
                 idx, schedule, error, active_times, accepted_times, sink>>

\* Config.__init__ defaults and _parse_config: the cutoff is a midnight, the
\* window bounds are times of day, the durations are whole numbers
Cutoffs == {None} \cup {d * SlotsPerDay : d \in 1 .. MaxDate}
TravelTimes == {None} \cup (0 .. MaxTravel)
DayTimes == {None} \cup (0 .. (SlotsPerDay - 1))
Intervals == {0, 1}

AllConfigs ==
    [current_appointment_date : Cutoffs,
     travel_time : TravelTimes,
     start_appointment_time : DayTimes,
     end_appointment_time : DayTimes,
     retrieval_interval : Intervals]

\* the configurations of the engine runs: the default window (whole day)
EngineConfigs ==
    {c \in AllConfigs :
        /\ c.travel_time = MaxTravel
        /\ c.start_appointment_time = 0
        /\ c.end_appointment_time = SlotsPerDay - 1}

NoVerdict == [done |-> FALSE, value |-> FALSE]

\* the database file at start: new, or left by a run that monitored
\* another location
InitialStores == {EmptyBag, SetToBag({<<2, isoformat(strptime(LastStamp))>>})}

EngineInit ==
    /\ time_before = [l \in Locations |-> 0]
    /\ time_to_sleep = [l \in Locations |-> 0]
    /\ pending = EmptyBag
    /\ lock = NoLock
    /\ pc = [l \in Locations |-> "start"]
    /\ response = [l \in Locations |-> "none"]
    /\ status = [l \in Locations |-> 0]
    /\ all_active_appointments = [l \in Locations |-> <<>>]
    /\ idx = [l \in Locations |-> 1]
    /\ schedule = [l \in Locations |-> EmptySchedule]
    /\ error = [l \in Locations |-> ""]
    /\ active_times = [l \in Locations |-> {}]
    /\ accepted_times = [l \in Locations |-> {}]
    /\ sink = [l \in Locations |-> <<>>]

Init ==
    /\ config \in EngineConfigs
    /\ location_ids = {1}
    /\ monitored = [l \in Locations |-> l]
    /\ committed \in InitialStores
    /\ now = 0
    /\ when = 0
    /\ verdict = NoVerdict
    /\ notified = [l \in Locations |-> {}]
    /\ EngineInit

Is4xx_only_400(st) == st = 400

\* if 400 <= response.status_code < 500
Is4xx(st) == 400 <= st /\ st < 500

\* a fetch counts as successful when the status is 2xx
Is2xx(st) == 200 <= st /\ st < 300

\* notified[l] follows the run of location l: a successful fetch keeps the
\* slots that are still active, a call of the sink adds the slots handed over
History ==
    notified' = [l \in Locations |->
        IF pc[l] = "start" /\ pc'[l] \in {"empty", "evaluated"} /\ Is2xx(status'[l])
        THEN notified[l] \cap active_times'[l]
        ELSE IF Len(sink'[l]) > Len(sink[l])
        THEN notified[l] \cup ScheduleTimes(sink'[l][Len(sink'[l])])
        ELSE notified[l]]

\* ------------------------------------------------------------ the clock
Tick ==
    /\ now < MaxNow
    /\ now' = now + 1
    /\ UNCHANGED <<config, location_ids, monitored, time_before, time_to_sleep, when, verdict, notified>>
    /\ UNCHANGED engine_vars

\* --------------------------------------------- _get_schedule, lines 117-147
\* the locals of a fresh call of _get_schedule (they are dropped again when
\* monitor_location moves on from the call)
EnterCycle(l, kind, st, actives, accepted) ==
    /\ response' = [response EXCEPT ![l] = kind]
    /\ status' = [status EXCEPT ![l] = st]
    /\ idx' = [idx EXCEPT ![l] = 1]
    /\ schedule' = [schedule EXCEPT ![l] = EmptySchedule]
    /\ active_times' = [active_times EXCEPT ![l] = actives]
    /\ accepted_times' = [accepted_times EXCEPT ![l] = accepted]
    /\ sink' = [sink EXCEPT ![l] = <<>>]

Raise(l, exc) ==
    /\ pc' = [pc EXCEPT ![l] = "raised"]
    /\ error' = [error EXCEPT ![l] = exc]

FetchOSError_uncaught(l) ==
    /\ l \in location_ids
    /\ pc[l] = "start"
    /\ EnterCycle(l, "oserror", 0, {}, {})
    /\ all_active_appointments' = [all_active_appointments EXCEPT ![l] = <<>>]
    /\ Raise(l, "ConnectionError")
    /\ UNCHANGED <<config, location_ids, monitored, time_before, time_to_sleep, now, when, verdict, committed, pending, lock>>
    /\ History

\* requests.get raises (connection error, timeout): except OSError: return
FetchOSError(l) ==
    /\ l \in location_ids
    /\ pc[l] = "start"
    /\ EnterCycle(l, "oserror", 0, {}, {})
    /\ all_active_appointments' = [all_active_appointments EXCEPT ![l] = <<>>]
    /\ pc' = [pc EXCEPT ![l] = "after"]
    /\ UNCHANGED <<config, location_ids, monitored, time_before, time_to_sleep, now, when, verdict, committed, pending, lock, error>>
    /\ History

Fetch4xx_process_wide(l) ==
    /\ l \in location_ids
    /\ pc[l] = "start"
    /\ \E st \in Statuses :
          /\ Is4xx(st)
          /\ EnterCycle(l, "status", st, {}, {})
    /\ all_active_appointments' = [all_active_appointments EXCEPT ![l] = <<>>]
    /\ pc' = [k \in Locations |-> "raised"]
    /\ error' = [k \in Locations |-> "PermissionError"]
    /\ UNCHANGED <<config, location_ids, monitored, time_before, time_to_sleep, now, when, verdict, committed, pending, lock>>
    /\ History

\* if 400 <= response.status_code < 500: raise PermissionError
Fetch4xx(l) ==
    /\ l \in location_ids
    /\ pc[l] = "start"
    /\ \E st \in Statuses :
          /\ Is4xx(st)
          /\ EnterCycle(l, "status", st, {}, {})
    /\ all_active_appointments' = [all_active_appointments EXCEPT ![l] = <<>>]
    /\ Raise(l, "PermissionError")
    /\ UNCHANGED <<config, location_ids, monitored, time_before, time_to_sleep, now, when, verdict, committed, pending, lock>>
    /\ History

\* response.json() raises JSONDecodeError.  Whether that is an OSError
\* depends on the installed requests: either it is caught at line 158 and
\* the cycle goes on to db.commit(), or it leaves monitor_location.
FetchUnparseable(l) ==
    /\ l \in location_ids
    /\ pc[l] = "start"
    /\ \E st \in Statuses :
          /\ ~Is4xx(st)
          /\ EnterCycle(l, "unparseable", st, {}, {})
    /\ all_active_appointments' = [all_active_appointments EXCEPT ![l] = <<>>]
    /\ \/ /\ pc' = [pc EXCEPT ![l] = "commit"]
          /\ UNCHANGED error
       \/ Raise(l, "JSONDecodeError")
    /\ UNCHANGED <<config, location_ids, monitored, time_before, time_to_sleep, now, when, verdict, committed, pending, lock>>
    /\ History

\* the body is a JSON object: iterating it yields its keys, and
\* appointment["active"] on a str raises TypeError
FetchErrorObject(l) ==
    /\ l \in location_ids
    /\ pc[l] = "start"
    /\ \E st \in Statuses :
          /\ ~Is4xx(st)
          /\ EnterCycle(l, "object", st, {}, {})
    /\ all_active_appointments' = [all_active_appointments EXCEPT ![l] = <<>>]
    /\ Raise(l, "TypeError")
    /\ UNCHANGED <<config, location_ids, monitored, time_before, time_to_sleep, now, when, verdict, committed, pending, lock>>
    /\ History

\* if not appointments: the body is an empty array
FetchEmpty(l) ==
    /\ l \in location_ids
    /\ pc[l] = "start"
    /\ \E st \in Statuses :
          /\ ~Is4xx(st)
          /\ EnterCycle(l, "empty", st, {}, {})
    /\ all_active_appointments' = [all_active_appointments EXCEPT ![l] = <<>>]
    /\ pc' = [pc EXCEPT ![l] = "empty"]
    /\ UNCHANGED <<config, location_ids, monitored, time_before, time_to_sleep, now, when, verdict, committed, pending, lock, error>>
    /\ History

\* the body is a non-empty array: lines 138-147
FetchEvaluate(l) ==
    /\ l \in location_ids
    /\ pc[l] = "start"
    /\ \E st \in Statuses, appointments \in FeedsOf(location_ids) :
          /\ ~Is4xx(st)
          /\ appointments # <<>>
          /\ LET r == evaluate_all(appointments, 1, <<>>, config, now)
                 actives == ActiveTimes(appointments)
                 accepted == {t \in actives : is_date_acceptable(config, t, now)}
             IN  /\ EnterCycle(l, "list", st, actives, accepted)
                 /\ IF r.exc # ""
                    THEN /\ Raise(l, r.exc)
                         /\ all_active_appointments' =
                               [all_active_appointments EXCEPT ![l] = <<>>]
                    ELSE /\ pc' = [pc EXCEPT ![l] = "evaluated"]
                         /\ all_active_appointments' =
                               [all_active_appointments EXCEPT ![l] = r.list]
                         /\ UNCHANGED error
    /\ UNCHANGED <<config, location_ids, monitored, time_before, time_to_sleep, now, when, verdict, committed, pending, lock>>
    /\ History

\* --------------------------------------------- _get_schedule, lines 134, 148
\* The DELETE opens the connection's write transaction: it needs the write
\* lock of the database file.
ReconcileEmpty(l) ==
    /\ l \in location_ids
    /\ pc[l] = "empty"
    /\ lock = NoLock
    /\ lock' = l
    /\ pending' = clear_database_of_claimed_appointments(committed, monitored[l], <<>>)
    /\ pc' = [pc EXCEPT ![l] = "commit"]
    /\ UNCHANGED <<config, location_ids, monitored, time_before, time_to_sleep, now, when, verdict, committed, response, status, all_active_appointments,
                   idx, schedule, error, active_times, accepted_times, sink>>
    /\ History

Reconcile_unlocked(l) ==
    /\ l \in location_ids
    /\ pc[l] = "evaluated"
    /\ lock' = l
    /\ pending' = clear_database_of_claimed_appointments(
                      committed, monitored[l], all_active_appointments[l])
    /\ pc' = [pc EXCEPT ![l] = "claim"]
    /\ UNCHANGED <<config, location_ids, monitored, time_before, time_to_sleep, now, when, verdict, committed, response, status,
                   all_active_appointments, idx, schedule, error, active_times,
                   accepted_times, sink>>
    /\ History

Reconcile(l) ==
    /\ l \in location_ids
    /\ pc[l] = "evaluated"
    /\ lock = NoLock
    /\ lock' = l
    /\ pending' = clear_database_of_claimed_appointments(
                      committed, monitored[l], all_active_appointments[l])
    /\ pc' = [pc EXCEPT ![l] = "claim"]
    /\ UNCHANGED <<config, location_ids, monitored, time_before, time_to_sleep, now, when, verdict, committed, response, status, all_active_appointments,
                   idx, schedule, error, active_times, accepted_times, sink>>
    /\ History

\* another connection holds the write lock for longer than the busy
\* timeout: sqlite3.OperationalError, which is no OSError
ReconcileLocked(l) ==
    /\ l \in location_ids
    /\ pc[l] \in {"empty", "evaluated"}
    /\ lock \notin {NoLock, l}
    /\ Raise(l, "OperationalError")
    /\ UNCHANGED <<config, location_ids, monitored, time_before, time_to_sleep, now, when, verdict, committed, pending, lock, response, status,
                   all_active_appointments, idx, schedule, active_times,
                   accepted_times, sink>>
    /\ History

\* --------------------------------------------- _get_schedule, lines 150-152
Claim(l) ==
    /\ l \in location_ids
    /\ pc[l] = "claim"
    /\ idx[l] <= Len(all_active_appointments[l])
    /\ LET w == all_active_appointments[l][idx[l]]
           r == is_new_appointment(pending, monitored[l], w)
       IN  /\ pending' = r.db
           /\ schedule' = [schedule EXCEPT ![l] =
                              IF r.ret THEN setdefault_append(@, date(w), w) ELSE @]
    /\ idx' = [idx EXCEPT ![l] = @ + 1]
    /\ UNCHANGED <<config, location_ids, monitored, time_before, time_to_sleep, now, when, verdict, committed, lock, pc, response, status,
                   all_active_appointments, error, active_times, accepted_times,
                   sink>>
    /\ History

\* --------------------------------------------- _get_schedule, lines 154-156
notify_always(sched) == TRUE

\* if schedule:
notify_wanted(sched) == DOMAIN sched # {}

Notify(l) ==
    /\ l \in location_ids
    /\ pc[l] = "claim"
    /\ idx[l] > Len(all_active_appointments[l])
    /\ IF notify_wanted(schedule[l])
       THEN sink' = [sink EXCEPT ![l] = Append(@, schedule[l])]
       ELSE UNCHANGED sink
    /\ pc' = [pc EXCEPT ![l] = "commit"]
    /\ UNCHANGED <<config, location_ids, monitored, time_before, time_to_sleep, now, when, verdict, committed, pending, lock, response, status,
                   all_active_appointments, idx, schedule, error, active_times,
                   accepted_times>>
    /\ History

\* --------------------------------------------- _get_schedule, lines 135, 163
Commit(l) ==
    /\ l \in location_ids
    /\ pc[l] = "commit"
    /\ IF lock = l
       THEN /\ committed' = pending
            /\ pending' = EmptyBag
            /\ lock' = NoLock
       ELSE UNCHANGED <<committed, pending, lock>>
    /\ pc' = [pc EXCEPT ![l] = "after"]
    /\ UNCHANGED <<config, location_ids, monitored, time_before, time_to_sleep, now, when, verdict, response, status,
                   all_active_appointments, idx,
                   schedule, error, active_times, accepted_times, sink>>
    /\ History

\* --------------------------------------------- monitor_location, lines 177-192
Loop_once(l) ==
    /\ l \in location_ids
    /\ pc[l] = "after"
    /\ pc' = [pc EXCEPT ![l] = "returned"]
    /\ EnterCycle(l, "none", 0, {}, {})
    /\ all_active_appointments' = [all_active_appointments EXCEPT ![l] = <<>>]
    /\ UNCHANGED <<config, location_ids, monitored, time_before, time_to_sleep, now, when, verdict, committed, pending, lock, error>>
    /\ History

Loop(l) ==
    /\ l \in location_ids
    /\ pc[l] = "after"
    /\ pc' = [pc EXCEPT ![l] =
                 IF config.retrieval_interval = 0 THEN "returned" ELSE "start"]
    /\ EnterCycle(l, "none", 0, {}, {})
    /\ all_active_appointments' = [all_active_appointments EXCEPT ![l] = <<>>]
    /\ UNCHANGED <<config, location_ids, monitored, time_before, time_to_sleep, now, when, verdict, committed, pending, lock, error>>
    /\ History

Step(l) ==
    \/ FetchOSError(l)
    \/ Fetch4xx(l)
    \/ FetchUnparseable(l)
    \/ FetchErrorObject(l)
    \/ FetchEmpty(l)
    \/ FetchEvaluate(l)
    \/ ReconcileEmpty(l)
    \/ Reconcile(l)
    \/ Claim(l)
    \/ Notify(l)
    \/ Commit(l)
    \/ Loop(l)

\* one monitored location
Next == Tick \/ \E l \in Locations : Step(l)

Spec == Init /\ [][Next]_vars

\* one task per location, side by side on one database file
InitTasks ==
    /\ config \in EngineConfigs
    /\ location_ids = Locations
    /\ monitored = [l \in Locations |-> l]
    /\ committed = EmptyBag
    /\ now = 0
    /\ when = 0
    /\ verdict = NoVerdict
    /\ notified = [l \in Locations |-> {}]
    /\ EngineInit

NextTasks == Tick \/ \E l \in Locations : Step(l) \/ ReconcileLocked(l)

SpecTasks == InitTasks /\ [][NextTasks]_vars

\* --------------------------------------------- interruption and restart
Interrupt_flush ==
    /\ \E l \in location_ids : pc[l] # "killed"
    /\ pc' = [l \in Locations |-> "killed"]
    /\ committed' = IF lock # NoLock THEN pending ELSE committed
    /\ pending' = EmptyBag
    /\ lock' = NoLock
    /\ UNCHANGED <<config, location_ids, monitored, time_before, time_to_sleep, now, when, verdict, response, status,
                   all_active_appointments, idx, schedule, error, active_times,
                   accepted_times, sink>>
    /\ History

\* The process is stopped at an arbitrary point (Ctrl+C, kill, power
\* loss).  Every task ends with it; a write transaction that was open is
\* never committed, SQLite rolls it back and the lock is gone.
Interrupt ==
    /\ \E l \in location_ids : pc[l] # "killed"
    /\ pc' = [l \in Locations |-> "killed"]
    /\ pending' = EmptyBag
    /\ lock' = NoLock
    /\ UNCHANGED <<config, location_ids, monitored, time_before, time_to_sleep, now, when, verdict, committed, response, status,
                   all_active_appointments, idx, schedule, error, active_times,
                   accepted_times, sink>>
    /\ History

\* The program is started again with the same configuration on the same
\* database file, some time later: monitor_location begins anew, the table
\* is as committed.
Restart ==
    /\ \A l \in location_ids : pc[l] = "killed"
    /\ now < MaxNow
    /\ now' = now + 1
    /\ pc' = [l \in Locations |-> "start"]
    /\ response' = [l \in Locations |-> "none"]
    /\ status' = [l \in Locations |-> 0]
    /\ all_active_appointments' = [l \in Locations |-> <<>>]
    /\ idx' = [l \in Locations |-> 1]
    /\ schedule' = [l \in Locations |-> EmptySchedule]
    /\ error' = [l \in Locations |-> ""]
    /\ active_times' = [l \in Locations |-> {}]
    /\ accepted_times' = [l \in Locations |-> {}]
    /\ sink' = [l \in Locations |-> <<>>]
    /\ UNCHANGED <<config, location_ids, monitored, time_before, time_to_sleep, when, verdict, committed, pending, lock>>
    /\ History

NextRestart == Next \/ Interrupt \/ Restart

\* one monitored location with no appointment held yet, on a new database
\* file; the run is interrupted and restarted while the clock allows
InitRestart ==
    /\ config \in {c \in EngineConfigs : c.current_appointment_date = None}
    /\ location_ids = {1}
    /\ monitored = [l \in Locations |-> l]
    /\ committed = EmptyBag
    /\ now = 0
    /\ when = 0
    /\ verdict = NoVerdict
    /\ notified = [l \in Locations |-> {}]
    /\ EngineInit

SpecRestart == InitRestart /\ [][NextRestart]_vars

\* --------------------------------------------- storage-layer errors
\* A statement on the connection raises sqlite3.OperationalError (disk
\* full, I/O error, database locked).  sqlite3.Error derives from
\* Exception, not from OSError: neither except clause of _get_schedule
\* catches it and it leaves monitor_location.  The connection goes with the
\* call, and SQLite rolls back what it had not committed.
StorageError(l) ==
    /\ Raise(l, "OperationalError")
    /\ IF lock = l
       THEN /\ pending' = EmptyBag
            /\ lock' = NoLock
       ELSE UNCHANGED <<pending, lock>>
    /\ UNCHANGED <<config, location_ids, monitored, time_before, time_to_sleep, now, when, verdict, committed, response, status,
                   all_active_appointments, idx, schedule, active_times,
                   accepted_times, sink>>
    /\ History

\* the DELETE of line 134 or 148 fails
ReconcileFails(l) ==
    /\ l \in location_ids
    /\ pc[l] \in {"empty", "evaluated"}
    /\ StorageError(l)

\* the SELECT or the INSERT of _is_new_appointment fails
ClaimFails(l) ==
    /\ l \in location_ids
    /\ pc[l] = "claim"
    /\ idx[l] <= Len(all_active_appointments[l])
    /\ StorageError(l)

\* db.commit() of line 135 or 163 fails: what the cycle wrote is not stored
CommitFails(l) ==
    /\ l \in location_ids
    /\ pc[l] = "commit"
    /\ lock = l
    /\ StorageError(l)

NextStorage ==
    \/ Next
    \/ \E l \in Locations : ReconcileFails(l) \/ ClaimFails(l) \/ CommitFails(l)

\* one monitored location on a database that may fail
SpecStorage == Init /\ [][NextStorage]_vars

\* --------------------------------------------- monitor_location, lines 181-192
\* The timing of the while loop, with the cycle taken as a whole: the call
\* of _get_schedule takes some time (its sleep(1) and the request).
\* time_before = datetime.utcnow(); self._get_schedule(db, location_id)
TimedCycle(l) ==
    /\ l \in location_ids
    /\ pc[l] = "start"
    /\ config.retrieval_interval # 0
    /\ time_before' = [time_before EXCEPT ![l] = now]
    /\ \E taken \in 1 .. MaxDuration :
          /\ now + taken <= MaxClock
          /\ now' = now + taken
    /\ pc' = [pc EXCEPT ![l] = "after"]
    /\ UNCHANGED <<config, location_ids, monitored, time_to_sleep, when, verdict, committed, pending,
                   lock, response, status, all_active_appointments, idx, schedule,
                   error, active_times, accepted_times, sink>>
    /\ History

Sleep_full_interval(l) ==
    /\ l \in location_ids
    /\ pc[l] = "after"
    /\ time_to_sleep' = [time_to_sleep EXCEPT ![l] = config.retrieval_interval]
    /\ now' = now + config.retrieval_interval
    /\ now' <= MaxClock
    /\ pc' = [pc EXCEPT ![l] = "start"]
    /\ UNCHANGED <<config, location_ids, monitored, time_before, when, verdict, committed, pending,
                   lock, response, status, all_active_appointments, idx, schedule,
                   error, active_times, accepted_times, sink>>
    /\ History

\* time_after = datetime.utcnow(); time_taken = time_after - time_before;
\* time_to_sleep = interval - time_taken; if time_to_sleep > 0: sleep(...)
Sleep(l) ==
    /\ l \in location_ids
    /\ pc[l] = "after"
    /\ LET time_after == now
           time_taken == time_after - time_before[l]
       IN  time_to_sleep' =
               [time_to_sleep EXCEPT ![l] = config.retrieval_interval - time_taken]
    /\ now' = IF time_to_sleep'[l] > 0 THEN now + time_to_sleep'[l] ELSE now
    /\ now' <= MaxClock
    /\ pc' = [pc EXCEPT ![l] = "start"]
    /\ UNCHANGED <<config, location_ids, monitored, time_before, when, verdict, committed, pending,
                   lock, response, status, all_active_appointments, idx, schedule,
                   error, active_times, accepted_times, sink>>
    /\ History

SleepIntervals == 1 .. MaxInterval

\* the loop of one location, started at any time of the clock
InitSleep ==
    /\ config \in {[c EXCEPT !.retrieval_interval = i] :
                      c \in EngineConfigs, i \in SleepIntervals}
    /\ location_ids = {1}
    /\ monitored = [l \in Locations |-> l]
    /\ committed = EmptyBag
    /\ now \in 0 .. MaxNow
    /\ when = 0
    /\ verdict = NoVerdict
    /\ notified = [l \in Locations |-> {}]
    /\ EngineInit

NextSleep == \E l \in Locations : TimedCycle(l) \/ Sleep(l)

SpecSleep == InitSleep /\ [][NextSleep]_vars

\* two tasks that monitor the same location, each with its own connection
InitOverlap ==
    /\ config \in EngineConfigs
    /\ location_ids = Locations
    /\ monitored = [l \in Locations |-> 1]
    /\ committed = EmptyBag
    /\ now = 0
    /\ when = 0
    /\ verdict = NoVerdict
    /\ notified = [l \in Locations |-> {}]
    /\ EngineInit

SpecOverlap == InitOverlap /\ [][NextTasks]_vars

\* a stand-alone call of Config.is_date_acceptable
InitPolicy ==
    /\ config \in AllConfigs
    /\ location_ids = {}
    /\ monitored = [l \in Locations |-> l]
    /\ committed = EmptyBag
    /\ now \in 0 .. MaxNow
    /\ when \in Times
    /\ verdict = NoVerdict
    /\ notified = [l \in Locations |-> {}]
    /\ EngineInit

Accept ==
    /\ ~verdict.done
    /\ verdict' = [done |-> TRUE, value |-> is_date_acceptable(config, when, now)]
    /\ UNCHANGED <<config, location_ids, monitored, time_before, time_to_sleep, now, when, notified>>
    /\ UNCHANGED engine_vars

NextPolicy == Accept

SpecPolicy == InitPolicy /\ [][NextPolicy]_vars

\* ================================================================ claims
Iso(S) == {isoformat(t) : t \in S}
Handed(l) == UNION {ScheduleTimes(sink[l][i]) : i \in DOMAIN sink[l]}
InTransaction(l) == lock = l /\ pc[l] \in {"claim", "commit"}

\* C1: every timestamp a cycle hands to the NotificationSink is the start
\* time of an active candidate of the cycle's response, was accepted by the
\* policy in the cycle and was not stored for the location when the cycle
\* began (the committed table, while the cycle's transaction is open); and
\* the sink is never called with nothing to hand over.
C1_HandedAreNewQualifying ==
    \A l \in Locations :
        /\ \A i \in DOMAIN sink[l] : ScheduleTimes(sink[l][i]) # {}
        /\ Handed(l) \subseteq active_times[l]
        /\ Handed(l) \subseteq accepted_times[l]
        /\ pc[l] = "commit" /\ Handed(l) # {} =>
              /\ lock = l
              /\ Iso(Handed(l)) \cap StoredTimes(committed, l) = {}

\* a cycle handed over one slot and held back another accepted one that
\* was stored already
C1_Witness ==
    \E l \in Locations :
        /\ pc[l] = "commit"
        /\ Handed(l) # {}
        /\ accepted_times[l] \ Handed(l) # {}

\* C2: within one run of a location's loop a slot that was handed to the
\* NotificationSink is not handed to it again in a later cycle while it
\* stays an active candidate in every successful fetch in between.
C2_NeverHandedTwice ==
    [][\A l \in Locations :
          Len(sink'[l]) > Len(sink[l]) =>
              ScheduleTimes(sink'[l][Len(sink'[l])]) \cap notified[l] = {}]_vars

Range(f) == {f[i] : i \in DOMAIN f}
NoDuplicateRows(db) == \A r \in BagToSet(db) : CopiesIn(r, db) = 1
Places(sched) == UNION {{<<d, i>> : i \in DOMAIN sched[d]} : d \in DOMAIN sched}
Occurrences(sched, w) == Cardinality({p \in Places(sched) : sched[p[1]][p[2]] = w})

\* C3: _is_new_appointment is exactly-once per pair.  Of the calls a cycle
\* has made for a start time, exactly one returned true (the slot went
\* into schedule once) when the row was not stored before, none when it
\* was; after the call the row is stored exactly once, also when the feed
\* repeats the timestamp; the table never holds a pair twice.
C3_ClaimedExactlyOnce ==
    /\ NoDuplicateRows(committed)
    /\ NoDuplicateRows(pending)
    /\ \A l \in Locations :
          pc[l] = "claim" =>
              /\ lock = l
              /\ \A j \in 1 .. (idx[l] - 1) :
                    LET w == all_active_appointments[l][j]
                    IN  /\ CopiesIn(<<l, isoformat(w)>>, pending) = 1
                        /\ Occurrences(schedule[l], w) =
                              IF isoformat(w) \in StoredTimes(committed, l) THEN 0 ELSE 1

\* the feed repeated a timestamp: the first call claimed it, the second did not
C3_Witness ==
    \E l \in Locations :
        /\ pc[l] = "claim"
        /\ idx[l] = 3
        /\ all_active_appointments[l][1] = all_active_appointments[l][2]
        /\ Occurrences(schedule[l], all_active_appointments[l][1]) = 1

\* C4 (as claimed): after the reconcile of a cycle with a successful fetch
\* a stored row is gone if and only if its slot is not among the active
\* candidates of the response, whatever the policy says of it.
C4_PrunedIffNotActive ==
    \A l \in Locations :
        InTransaction(l) /\ Is2xx(status[l]) =>
            \A s \in StoredTimes(committed, l) :
                s \notin StoredTimes(pending, l) <=> s \notin Iso(active_times[l])

\* C4 (amended): reconcile is called with the start times of the active
\* candidates the policy accepts in the cycle; a stored row is gone if and
\* only if its slot is not among them, so a stored row whose slot is still
\* active but is now rejected by the policy is removed.
C4_PrunedIffNotAccepted ==
    \A l \in Locations :
        Is2xx(status[l]) =>
            /\ pc[l] = "evaluated" =>
                  Range(all_active_appointments[l]) = accepted_times[l]
            /\ InTransaction(l) =>
                  \A s \in StoredTimes(committed, l) :
                      s \notin StoredTimes(pending, l) <=> s \notin Iso(accepted_times[l])

\* a stored slot that is still active but rejected now has been removed
C4_Witness ==
    \E l \in Locations :
        /\ InTransaction(l)
        /\ Is2xx(status[l])
        /\ \E s \in StoredTimes(committed, l) :
              /\ s \in Iso(active_times[l] \ accepted_times[l])
              /\ s \notin StoredTimes(pending, l)

\* C5: right after _clear_database_of_claimed_appointments(db, l, S) the
\* table is the table before it without the rows of l whose start time is
\* not in S: rows of l in S and rows of other locations are as before.
JustReconciled(l) ==
    /\ lock = l
    /\ \/ pc[l] = "claim" /\ idx[l] = 1
       \/ pc[l] = "commit" /\ response[l] = "empty"

C5_ReconcileDeletesExactlyStale ==
    \A l \in Locations :
        JustReconciled(l) =>
            /\ BagToSet(pending) \subseteq BagToSet(committed)
            /\ \A r \in BagToSet(committed) :
                  CopiesIn(r, pending) =
                      IF r[1] = l /\ r[2] \notin Iso(Range(all_active_appointments[l]))
                      THEN 0
                      ELSE CopiesIn(r, committed)

\* a reconcile that removed a row of the location, kept another one and
\* found a row of another location
C5_Witness ==
    \E l \in Locations :
        /\ JustReconciled(l)
        /\ StoredTimes(committed, l) \ StoredTimes(pending, l) # {}
        /\ StoredTimes(pending, l) # {}
        /\ \E r \in BagToSet(pending) : r[1] # l

\* C6: a cycle with a successful non-empty fetch whose active candidates A
\* are all accepted, starting from the stored set S of the location, ends
\* with the stored set A and hands over exactly A \ S, in one call, or
\* makes no call when A is a subset of S.
AllAcceptedCycle(l) ==
    /\ Is2xx(status[l])
    /\ response[l] = "list"
    /\ active_times[l] = accepted_times[l]

C6_StoreBecomesActiveSet ==
    \A l \in Locations :
        AllAcceptedCycle(l) =>
            /\ pc[l] = "commit" =>
                  /\ lock = l
                  /\ StoredTimes(pending, l) = Iso(active_times[l])
                  /\ Iso(Handed(l)) = Iso(active_times[l]) \ StoredTimes(committed, l)
                  /\ Len(sink[l]) = IF Handed(l) = {} THEN 0 ELSE 1
            /\ pc[l] = "after" =>
                  StoredTimes(committed, l) = Iso(active_times[l])

\* S = {T1, T2}, A = {T2, T3}: T1 pruned, T2 kept, T3 handed over
C6_Witness ==
    \E l \in Locations :
        /\ AllAcceptedCycle(l)
        /\ pc[l] = "commit"
        /\ StoredTimes(committed, l) \ Iso(active_times[l]) # {}
        /\ StoredTimes(committed, l) \cap Iso(active_times[l]) # {}
        /\ Cardinality(Handed(l)) = 1
        /\ Cardinality(StoredTimes(pending, l)) = 2

\* C7: a successful fetch with an empty array is a normal cycle: reconcile
\* runs with the empty set, every row of the location is removed and the
\* removal committed, rows of other locations stay, the sink is not
\* called and no error leaves the cycle.
EmptyCycle(l) == Is2xx(status[l]) /\ response[l] = "empty"

C7_EmptyFeedClearsLocation ==
    \A l \in Locations :
        EmptyCycle(l) =>
            /\ pc[l] \in {"empty", "commit", "after"}
            /\ error[l] = ""
            /\ sink[l] = <<>>
            /\ all_active_appointments[l] = <<>>
            /\ pc[l] = "commit" =>
                  /\ lock = l
                  /\ StoredTimes(pending, l) = {}
                  /\ \A r \in BagToSet(committed) \cup BagToSet(pending) :
                        r[1] # l => CopiesIn(r, pending) = CopiesIn(r, committed)
            /\ pc[l] = "after" =>
                  /\ lock # l
                  /\ StoredTimes(committed, l) = {}

\* an empty feed that removed the rows of the location next to a row of
\* another location
C7_Witness ==
    \E l \in Locations :
        /\ EmptyCycle(l)
        /\ pc[l] = "commit"
        /\ StoredTimes(committed, l) # {}
        /\ \E r \in BagToSet(pending) : r[1] # l

\* C8: is_date_acceptable(t) at time now is true exactly when the cutoff
\* is unset or t's date is before the cutoff's, travel_time is unset or
\* t >= now + travel_time, the start time of day is unset or t's is not
\* earlier, and the end time of day is unset or t's is not later.
C8_Accepts(cfg, t, nowv) ==
    /\ cfg.current_appointment_date = None
          \/ date(t) < date(cfg.current_appointment_date)
    /\ cfg.travel_time = None \/ t >= nowv + cfg.travel_time
    /\ cfg.start_appointment_time = None \/ time(t) >= cfg.start_appointment_time
    /\ cfg.end_appointment_time = None \/ time(t) <= cfg.end_appointment_time

C8_PolicyIsConjunction ==
    verdict.done => (verdict.value <=> C8_Accepts(config, when, now))

\* accepted on every boundary: t = now + travel_time, time of day equal to
\* both window bounds, the day before the cutoff
C8_Witness ==
    /\ verdict.done
    /\ verdict.value
    /\ config.travel_time # None
    /\ when = now + config.travel_time
    /\ time(when) = config.start_appointment_time
    /\ time(when) = config.end_appointment_time
    /\ config.current_appointment_date # None
    /\ date(when) + 1 = date(config.current_appointment_date)

\* C9: a response with a status in 400..499 raises out of the polling
\* loop: the step that receives it mutates no table, and the location
\* never starts another cycle.
ClientError(st) == st \in 400 .. 499

C9_ClientErrorIsFatal ==
    [][\A l \in Locations :
          /\ pc[l] = "start" /\ pc'[l] # "start" /\ ClientError(status'[l]) =>
                /\ pc'[l] = "raised"
                /\ error'[l] = "PermissionError"
                /\ committed' = committed
                /\ pending' = pending
                /\ lock' = lock
          /\ pc[l] = "raised" /\ ClientError(status[l]) =>
                /\ pc'[l] = "raised"
                /\ status'[l] = status[l]]_vars

\* the loop has stopped on a 4xx and the rows of the location are still stored
C9_Witness ==
    \E l \in Locations :
        /\ pc[l] = "raised"
        /\ ClientError(status[l])
        /\ error[l] = "PermissionError"
        /\ StoredTimes(committed, l) # {}

\* C10: a transport failure of the fetch ends the cycle at once: no table
\* is mutated, the sink is not called, no error leaves the cycle, and the
\* loop goes on as after any cycle.
C10_TransportFailureAbsorbed ==
    [][\A l \in Locations :
          /\ pc[l] = "start" /\ pc'[l] # "start" /\ response'[l] = "oserror" =>
                /\ pc'[l] = "after"
                /\ error'[l] = ""
                /\ sink'[l] = <<>>
                /\ committed' = committed
                /\ pending' = pending
                /\ lock' = lock
          /\ pc[l] = "after" /\ response[l] = "oserror" /\ pc'[l] # "after" =>
                pc'[l] = IF config.retrieval_interval = 0 THEN "returned" ELSE "start"]_vars

\* a transport failure has ended a cycle, the rows are intact
C10_Witness ==
    \E l \in Locations :
        /\ pc[l] = "after"
        /\ response[l] = "oserror"
        /\ StoredTimes(committed, l) # {}

\* C11: a response whose status is neither 2xx nor 4xx (HTTP 500) is a
\* transient error whatever its body: its cycle opens no transaction on
\* the table (no row deleted or inserted), calls the sink not at all, and
\* no error leaves the polling loop.
ServerError(st) == st # 0 /\ ~(st \in 200 .. 299) /\ ~(st \in 400 .. 499)

C11_ServerErrorIsTransient ==
    \A l \in Locations :
        ServerError(status[l]) =>
            /\ pc[l] \in {"commit", "after"}
            /\ lock # l
            /\ error[l] = ""
            /\ sink[l] = <<>>

\* C12: a malformed feed entry (a missing "active" or "startTimestamp"
\* key, an unparseable timestamp) is skipped: no KeyError or ValueError
\* leaves the cycle, and the cycle goes on to reconcile, claim and notify
\* the well-formed active entries of the response.
C12_MalformedEntrySkipped ==
    \A l \in Locations :
        Is2xx(status[l]) /\ response[l] = "list" =>
            /\ error[l] \notin {"KeyError", "ValueError"}
            /\ pc[l] # "raised"

\* C13: a fatal error (HTTP 4xx) of one location's task leaves every other
\* task alone: the step that raises it changes nothing of another task
\* and no table; the stopped task holds no lock; and while it is stopped
\* another task that has not ended itself can always take its next step
\* (fetch, reconcile, claim, notify, commit, next cycle).
FatallyStopped(a) == pc[a] = "raised" /\ error[a] = "PermissionError"

C13_FatalErrorIsLocal ==
    [][\A a \in Locations : \A b \in Locations \ {a} :
          /\ ~FatallyStopped(a) /\ FatallyStopped(a)' =>
                /\ pc'[b] = pc[b]
                /\ error'[b] = error[b]
                /\ committed' = committed
                /\ pending' = pending
                /\ lock' = lock
          /\ FatallyStopped(a) =>
                /\ lock # a
                /\ pc'[a] = pc[a]
                /\ pc[b] \notin {"raised", "returned"} => ENABLED Step(b)]_vars

\* one task has stopped on a 4xx; the other, whose row is stored, is in
\* the middle of a later cycle
C13_Witness ==
    \E a \in Locations : \E b \in Locations \ {a} :
        /\ FatallyStopped(a)
        /\ StoredTimes(committed, b) # {}
        /\ pc[b] = "claim"
        /\ lock = b

\* C14: with interval zero monitor_location runs one cycle and returns;
\* with a non-zero interval it never returns: after each cycle it starts
\* another, and it ends only by an error that leaves the loop.  A cycle
\* starts only when the one before has ended and holds no transaction.
InCycle(l) == pc[l] \in {"empty", "evaluated", "claim", "commit"}

C14_LoopByInterval ==
    [][\A l \in Locations :
          /\ pc'[l] = "returned" =>
                /\ config.retrieval_interval = 0
                /\ pc[l] \in {"after", "returned"}
          /\ pc[l] \in {"returned", "raised"} => pc'[l] = pc[l]
          /\ config.retrieval_interval = 0 /\ pc[l] # "start" => pc'[l] # "start"
          /\ pc[l] = "after" /\ pc'[l] # "after" =>
                pc'[l] = IF config.retrieval_interval = 0 THEN "returned" ELSE "start"
          /\ pc[l] # "start" /\ pc'[l] = "start" =>
                /\ pc[l] = "after"
                /\ lock # l
          /\ InCycle(l) => pc'[l] \in {"empty", "evaluated", "claim", "commit", "after"}]_vars

\* a one-shot run has returned after its cycle stored a row
C14_Witness ==
    \E l \in Locations :
        /\ config.retrieval_interval = 0
        /\ pc[l] = "returned"
        /\ StoredTimes(committed, l) # {}

\* C15 (as claimed): within a cycle the reconcile step runs when every
\* active candidate of the cycle has been through the claim, and deletes
\* by the active set of the cycle's response.
ReconcileStep(l) == lock # l /\ lock' = l
KeptBy(db, l, isos) == {r \in BagToSet(db) : r[1] # l \/ r[2] \in isos}

C15_ReconcileAfterClaims ==
    [][\A l \in Locations :
          ReconcileStep(l) =>
              /\ idx[l] > Len(all_active_appointments[l])
              /\ BagToSet(pending') = KeptBy(committed, l, Iso(active_times[l]))]_vars

\* C15 (amended): within a cycle the reconcile step runs after the policy
\* has evaluated every active candidate of the cycle's response and
\* before the first of them is claimed; it deletes by the accepted active
\* candidates of that same response, and the claims follow in the same
\* transaction.
C15_ReconcileBeforeClaims ==
    [][\A l \in Locations :
          /\ ReconcileStep(l) =>
                /\ pc[l] \in {"empty", "evaluated"}
                /\ idx[l] = 1
                /\ schedule[l] = EmptySchedule
                /\ Range(all_active_appointments[l]) = accepted_times[l]
                /\ BagToSet(pending') = KeptBy(committed, l, Iso(accepted_times[l]))
          /\ idx'[l] > idx[l] =>
                /\ lock = l
                /\ lock' = l
                /\ all_active_appointments'[l] = all_active_appointments[l]
                /\ accepted_times'[l] = accepted_times[l]]_vars

\* a cycle whose reconcile removed a stored row claims a new one
C15_Witness ==
    \E l \in Locations :
        /\ pc[l] = "claim"
        /\ idx[l] > 1
        /\ lock = l
        /\ StoredTimes(committed, l) \ StoredTimes(pending, l) # {}
        /\ StoredTimes(pending, l) \ StoredTimes(committed, l) # {}

\* C16: a row enters the table only by the claim of a candidate that was
\* active in the response of the inserting cycle and that the policy
\* accepted in that cycle: the list the cycle claims from holds exactly
\* the active candidates the policy accepts, a new row is one of that
\* list, and the committed table takes rows only from the transaction.
C16_OnlyActiveAcceptedStored ==
    [][\A l \in Locations :
          /\ pc[l] = "start" /\ pc'[l] = "evaluated" =>
                Range(all_active_appointments'[l]) =
                    {t \in active_times'[l] : C8_Accepts(config, t, now)}
          /\ \A r \in BagToSet(pending') \ (BagToSet(pending) \cup BagToSet(committed)) :
                r[1] = l =>
                    /\ lock = l
                    /\ pc[l] = "claim"
                    /\ r[2] \in Iso(Range(all_active_appointments[l]))
          /\ BagToSet(committed') \subseteq BagToSet(committed) \cup BagToSet(pending)]_vars

\* a response with an accepted and a rejected active candidate: only the
\* accepted one is stored
C16_Witness ==
    \E l \in Locations :
        /\ pc[l] = "commit"
        /\ lock = l
        /\ active_times[l] \ accepted_times[l] # {}
        /\ accepted_times[l] # {}
        /\ StoredTimes(pending, l) = Iso(accepted_times[l])
        /\ StoredTimes(committed, l) = {}

\* C17: the claim is atomic for tasks on the same location.  A call that
\* returns true runs inside the caller's own write transaction, finds the
\* pair in no table and leaves it stored once; two tasks are never both
\* between reconcile and commit; while the cycles of two tasks overlap
\* they have no slot in common among those claimed or handed to the sink;
\* and no table ever holds a pair twice.
SameLocation(a, b) == a # b /\ monitored[a] = monitored[b]
Claiming(l) == pc[l] = "claim" \/ (pc[l] = "commit" /\ response[l] \in {"empty", "list"})

C17_ClaimIsAtomic ==
    [][/\ \A a \in Locations :
             idx'[a] > idx[a] /\ schedule'[a] # schedule[a] =>
                 LET row == <<monitored[a], isoformat(all_active_appointments[a][idx[a]])>>
                 IN  /\ lock = a
                     /\ lock' = a
                     /\ CopiesIn(row, committed) = 0
                     /\ CopiesIn(row, pending) = 0
                     /\ CopiesIn(row, pending') = 1
       /\ \A a \in Locations : \A b \in Locations :
             SameLocation(a, b) /\ InCycle(a)' /\ InCycle(b)' =>
                 /\ ~(Claiming(a)' /\ Claiming(b)')
                 /\ ScheduleTimes(schedule'[a]) \cap ScheduleTimes(schedule'[b]) = {}
                 /\ Handed(a)' \cap Handed(b)' = {}
       /\ NoDuplicateRows(committed')
       /\ NoDuplicateRows(pending')]_vars

\* two cycles on one location overlap and both hold a slot that is not
\* stored: one has claimed and handed it over, the other has yet to reconcile
C17_Witness ==
    \E a \in Locations : \E b \in Locations :
        /\ SameLocation(a, b)
        /\ pc[a] = "commit"
        /\ lock = a
        /\ pc[b] = "evaluated"
        /\ \E t \in Handed(a) :
              /\ t \in Range(all_active_appointments[b])
              /\ CopiesIn(<<monitored[a], isoformat(t)>>, committed) = 0

\* C18: tasks of different locations on one database file neither wait
\* for each other nor fail each other: wherever the cycle of one task
\* stands, another task that has reached its reconcile step finds the
\* write lock free, and no task ends on a storage error.
C18_TasksDoNotBlockEachOther ==
    \A a \in Locations : \A b \in Locations :
        a # b /\ monitored[a] # monitored[b] =>
            /\ error[b] # "OperationalError"
            /\ pc[b] \in {"empty", "evaluated"} => lock # a

\* C19: the mutations of a cycle are all-or-nothing.  The committed table
\* changes only by the commit of a cycle that has made its reconcile and
\* every one of its claims, and then holds for the location exactly the
\* cycle's list and for other locations what it held; an interruption or
\* an error at any point leaves the committed table as it was.
C19_CycleIsAllOrNothing ==
    [][\/ committed' = committed
       \/ \E l \in Locations :
             /\ lock = l
             /\ pc[l] = "commit"
             /\ pc'[l] = "after"
             /\ idx[l] > Len(all_active_appointments[l])
             /\ BagToSet(committed') =
                   KeptBy(committed, monitored[l], {})
                   \cup {<<monitored[l], i>> : i \in Iso(Range(all_active_appointments[l]))}
             /\ \A r \in BagToSet(committed') : CopiesIn(r, committed') = 1]_vars

\* interrupted between two claims of a cycle whose reconcile had removed a
\* stored row: the row is still in the table and no claim is
C19_Witness ==
    \E l \in Locations :
        /\ pc[l] = "killed"
        /\ idx[l] > 1
        /\ idx[l] <= Len(all_active_appointments[l])
        /\ StoredTimes(committed, l) # {}
        /\ StoredTimes(committed, l) \cap Iso(Range(all_active_appointments[l])) = {}

\* C20: the claim of a slot is committed no later than the slot is handed
\* to the NotificationSink, so that a slot handed over before an
\* interruption is not handed over again after the restart while it has
\* stayed active.
C20_CommittedBeforeHandOff ==
    [][\A l \in Locations :
          Len(sink'[l]) > Len(sink[l]) =>
              LET handed == ScheduleTimes(sink'[l][Len(sink'[l])])
              IN  /\ Iso(handed) \subseteq StoredTimes(committed', monitored[l])
                  /\ handed \cap notified[l] = {}]_vars

\* C21: a storage-layer error on reconcile, claim or commit is fatal to the
\* task of the location: it leaves the polling loop, the task starts no
\* further cycle, and nothing has been handed to the sink whose claim is
\* not in the committed table.
StorageFailed(l) == pc[l] = "raised" /\ error[l] = "OperationalError"

C21_StorageErrorIsFatal ==
    [][\A l \in Locations :
          /\ error'[l] = "OperationalError" => pc'[l] = "raised"
          /\ StorageFailed(l) => StorageFailed(l)'
          /\ StorageFailed(l)' =>
                Iso(Handed(l)') \subseteq StoredTimes(committed', monitored[l])]_vars

\* C22: with a non-zero interval the loop sleeps after each cycle for
\* max(0, interval - cycleDuration), cycleDuration being the time from the
\* start of the cycle to its end: a cycle that took the interval or
\* longer is followed at once by the next, otherwise the next cycle
\* starts one interval after the start of this one.
C22_SleepIsIntervalMinusDuration ==
    [][\A l \in Locations :
          /\ pc[l] = "start" /\ pc'[l] = "after" =>
                /\ time_before'[l] = now
                /\ now' > now
          /\ pc[l] = "after" /\ pc'[l] = "start" =>
                LET cycleDuration == now - time_before[l]
                    interval == config.retrieval_interval
                IN  /\ now' - now =
                          IF interval - cycleDuration > 0
                          THEN interval - cycleDuration
                          ELSE 0
                    /\ cycleDuration >= interval => now' = now
                    /\ cycleDuration < interval => now' - time_before[l] = interval]_vars

\* a cycle overran the interval and the loop went on without a sleep,
\* after an earlier cycle that was followed by one
C22_Witness ==
    \E l \in Locations :
        /\ pc[l] = "start"
        /\ time_to_sleep[l] < 0
        /\ now - time_before[l] > config.retrieval_interval
        /\ time_before[l] > MaxNow

====
